---- MODULE Spec2Model ----
(***************************************************************************)
(* A model of pload.py: the grid codec (process_grid_line, read_grid,      *)
(* write_grid_header, write_grid), the output log reader (read_output_log) *)
(* and the config codec (read_config, write_config).                       *)
(*                                                                         *)
(* Files are sequences of lines.  A line of a grid file or of an output    *)
(* log is a sequence of tokens (a number, an integer, a word or one        *)
(* whitespace character); a line of a config file is a sequence of         *)
(* characters.  An exception raised by the Python code is an outcome       *)
(* record whose err field names the exception.                             *)
(*                                                                         *)
(* Floating point values are exact decimal fixed-point numbers: a Number   *)
(* [hi, lo] stands for (hi * Base + lo) * 10^-Scale with 0 <= lo < Base.   *)
(* Binary rounding error of the double arithmetic is not modelled; decimal *)
(* rounding (np.around, the .12e and .5f formats) is.                      *)
(***************************************************************************)
EXTENDS Integers, Sequences, FiniteSets, TLC

VARIABLES
    pline,      \* process_grid_line: the line of the most recent call
    pres,       \* process_grid_line: its outcome
    gfile,      \* the grid file (fname of read_grid / write_grid)
    wcall,      \* the arguments of the most recent write_grid call
    nwrites,    \* the number of write_grid calls so far
    rres,       \* the outcome of the most recent read_grid call
    lfile,      \* the output log file (fname of read_output_log)
    lres,       \* the outcome of the most recent read_output_log call
    cfile,      \* the config file (fname of read_config / write_config)
    cpos,       \* read_config: number of lines of cfile consumed by the loop
    section,    \* read_config: the local variable section (unbound at first)
    data,       \* read_config: the local variable data
    cstatus,    \* "idle", "written", or read_config "reading", "returned", "raised"
    cphase,     \* the caller's position: 1 first read, 2 written and re-reading
    doc1        \* the document the first read_config returned

vars == <<pline, pres, gfile, wcall, nwrites, rres, lfile, lres,
          cfile, cpos, section, data, cstatus, cphase, doc1>>

(***************************************************************************)
(* Decimal fixed-point numbers.                                            *)
(***************************************************************************)
Base == 10^7

\* digits after the decimal point that a Number holds: two limbs of 7
Scale == 7 + 7

Num(h, l) == [hi |-> h, lo |-> l]

Zero == Num(0, 0)

\* the integer n as a Number
FromInt(n) == Num(n * Base, 0)

\* the decimal i.aaaaaaabbbbbbb, for 0 <= a < Base and 0 <= b < Base
Dec(i, a, b) == Num(i * Base + a, b)

Add(a, b) ==
    LET s == a.lo + b.lo
    IN  Num(a.hi + b.hi + (s \div Base), s % Base)

Neg(a) == IF a.lo = 0 THEN Num(-a.hi, 0) ELSE Num(-a.hi - 1, Base - a.lo)

Sub(a, b) == Add(a, Neg(b))

\* a / 2 (exact when a is an even number of units)
Half(a) == Num(a.hi \div 2, (a.lo + (a.hi % 2) * Base) \div 2)

Less(a, b) == a.hi < b.hi \/ (a.hi = b.hi /\ a.lo < b.lo)

Leq(a, b) == a = b \/ Less(a, b)

Abs(a) == IF a.hi < 0 THEN Neg(a) ELSE a

\* a rounded to d decimals, ties to even (d <= Scale)
RoundDec(a, d) ==
    LET k == Scale - d
    IN  IF k <= 0 THEN a
        ELSE IF k < 7 THEN
            LET m    == 10^k
                r    == a.lo % m
                down == a.lo - r
                up   == 2 * r > m \/ (2 * r = m /\ (down \div m) % 2 = 1)
                l    == IF up THEN down + m ELSE down
            IN  Num(a.hi + (l \div Base), l % Base)
        ELSE
            LET m    == 10^(k - 7)
                r    == a.hi % m
                down == a.hi - r
                up   == \/ 2 * r > m
                        \/ 2 * r = m /\ a.lo > 0
                        \/ 2 * r = m /\ a.lo = 0 /\ (down \div m) % 2 = 1
                        \/ m = 1 /\ 2 * a.lo > Base
                        \/ m = 1 /\ 2 * a.lo = Base /\ down % 2 = 1
            IN  Num(IF up THEN down + m ELSE down, 0)

\* the decimal exponent of a nonzero a, for 10^-2 <= |a| < 10^3; smaller
\* magnitudes are reported as -2 (all their digits are kept either way)
Exponent10(a) ==
    LET m == Abs(a)
    IN  IF ~Less(m, FromInt(100)) THEN 2
        ELSE IF ~Less(m, FromInt(10)) THEN 1
        ELSE IF ~Less(m, FromInt(1)) THEN 0
        ELSE IF ~Less(m, Num(Base \div 10, 0)) THEN -1
        ELSE -2

(***************************************************************************)
(* Tokens and lines of grid files and output logs.                         *)
(***************************************************************************)
Tok(kind, h, l, text) == [k |-> kind, hi |-> h, lo |-> l, s |-> text]

\* the text of a floating point number
NumTok(a) == Tok("num", a.hi, a.lo, "")

\* the text of a decimal integer
IntTok(n) == Tok("int", n, 0, "")

\* any other text without whitespace
WordTok(text) == Tok("word", 0, 0, text)

SP == Tok("ws", 0, 0, " ")

TAB == Tok("ws", 0, 0, "\t")

IsWs(t) == t.k = "ws"

NotWs(t) == ~IsWs(t)

\* the length of the run of non-whitespace tokens that line starts with
RunLen(line) ==
    CHOOSE n \in 0..Len(line) :
        /\ \A i \in 1..n : NotWs(line[i])
        /\ n = Len(line) \/ IsWs(line[n + 1])

\* the text of adjacent tokens read as one field: a single token is itself,
\* several are text that is no number
Glue(run) == IF Len(run) = 1 THEN run[1] ELSE WordTok("glued")

\* str.split(): the maximal runs of non-whitespace
RECURSIVE Split(_)
Split(line) ==
    IF line = <<>> THEN <<>>
    ELSE IF IsWs(Head(line)) THEN Split(Tail(line))
    ELSE LET n == RunLen(line)
         IN  <<Glue(SubSeq(line, 1, n))>> \o Split(SubSeq(line, n + 1, Len(line)))

\* int(text) of a whole line: surrounding whitespace is accepted
IntOk(line) == Len(Split(line)) = 1 /\ Split(line)[1].k = "int"

IntOf(line) == Split(line)[1].hi

\* float(text)
FloatOk(t) == t.k \in {"num", "int"}

Float(t) == IF t.k = "int" THEN FromInt(t.hi) ELSE Num(t.hi, t.lo)

\* '{:.12e}'.format(a), as the value the text denotes: 13 significant digits
FormatE12(a) == IF a = Zero THEN a ELSE RoundDec(a, 12 - Exponent10(a))

\* '{:.5f}'.format(a), as the value the text denotes
FormatF5(a) == RoundDec(a, 5)

(***************************************************************************)
(* process_grid_line                                                       *)
(***************************************************************************)
Outcome(e, v) == [err |-> e, val |-> v]

\* a variant reading the index field as the left edge
process_grid_line_shifted(line) ==
    LET items == Split(line)
    IN  IF Len(items) = 5 THEN
            IF FloatOk(items[3]) THEN Outcome("", Float(items[3]))
            ELSE Outcome("ValueError", Zero)
        ELSE IF Len(items) < 2 THEN Outcome("IndexError", Zero)
        ELSE IF ~FloatOk(items[2]) THEN Outcome("ValueError", Zero)
        ELSE IF Len(items) < 3 THEN Outcome("IndexError", Zero)
        ELSE IF ~FloatOk(items[3]) THEN Outcome("ValueError", Zero)
        ELSE Outcome("", Half(Add(Float(items[1]), Float(items[3]))))

process_grid_line(line) ==
    LET items == Split(line)
    IN  IF Len(items) = 5 THEN
            IF FloatOk(items[3]) THEN Outcome("", Float(items[3]))
            ELSE Outcome("ValueError", Zero)
        ELSE IF Len(items) < 2 THEN Outcome("IndexError", Zero)
        ELSE IF ~FloatOk(items[2]) THEN Outcome("ValueError", Zero)
        ELSE IF Len(items) < 3 THEN Outcome("IndexError", Zero)
        ELSE IF ~FloatOk(items[3]) THEN Outcome("ValueError", Zero)
        ELSE Outcome("", Half(Add(Float(items[2]), Float(items[3]))))

(***************************************************************************)
(* Values of the variables of a component that has not run.                *)
(***************************************************************************)
NotCalled == Outcome("none", Zero)

EmptyGrid == [x1 |-> <<>>, x2 |-> <<>>, x3 |-> <<>>]

NoWrite == [called |-> FALSE, grid |-> EmptyGrid, pluto4 |-> TRUE,
            geometry |-> "CARTESIAN"]

NoRead == [err |-> "none", grid |-> EmptyGrid]

NoLog == [err |-> "none", data |-> <<>>]

Unbound == [bound |-> FALSE, name |-> <<>>]

LineIdle == pline = <<>> /\ pres = NotCalled

GridIdle == gfile = <<>> /\ wcall = NoWrite /\ nwrites = 0 /\ rres = NoRead

LogIdle == lfile = <<>> /\ lres = NoLog

ConfigIdle ==
    /\ cfile = <<>> /\ cpos = 0 /\ section = Unbound /\ data = <<>>
    /\ cstatus = "idle" /\ cphase = 1 /\ doc1 = <<>>

lineVars == <<pline, pres>>

gridVars == <<gfile, wcall, nwrites, rres>>

logVars == <<lfile, lres>>

configVars == <<cfile, cpos, section, data, cstatus, cphase, doc1>>

(***************************************************************************)
(* Input lines: every sequence of at most MaxFields fields, joined by      *)
(* single spaces or, as write_grid does, led by a space and joined by tabs.*)
(***************************************************************************)
MaxFields == 6

\* 0.5 and 2.25
FieldValues == {IntTok(1), NumTok(Dec(0, 5000000, 0)),
                NumTok(Dec(2, 2500000, 0)), WordTok("x")}

SeqsUpTo(S, n) == UNION {[1..m -> S] : m \in 0..n}

RECURSIVE Join(_, _)
Join(fields, sep) ==
    IF Len(fields) = 0 THEN <<>>
    ELSE IF Len(fields) = 1 THEN fields
    ELSE <<Head(fields), sep>> \o Join(Tail(fields), sep)

LineInputs ==
    {Join(f, SP) : f \in SeqsUpTo(FieldValues, MaxFields)}
    \cup {<<SP>> \o Join(f, TAB) : f \in SeqsUpTo(FieldValues, MaxFields)}

InitLine ==
    /\ pline \in LineInputs
    /\ pres = NotCalled
    /\ GridIdle /\ LogIdle /\ ConfigIdle

ProcessGridLine ==
    /\ pres = NotCalled
    /\ pres' = process_grid_line(pline)
    /\ UNCHANGED <<pline, gridVars, logVars, configVars>>

NextLine == ProcessGridLine

SpecLine == InitLine /\ [][NextLine]_vars

(***************************************************************************)
(* Files: open(fname, 'w') truncates, open(fname, 'a') keeps the content   *)
(* and writes after it.                                                    *)
(***************************************************************************)
\* a variant that keeps the content
OpenWKeep(content) == content

OpenW(content) == <<>>

OpenA(content) == content

(***************************************************************************)
(* read_grid                                                               *)
(***************************************************************************)
keys == <<"x1", "x2", "x3">>

HASH == WordTok("#")

\* x.startswith('#')
StartsWithHash(line) == Len(line) > 0 /\ line[1] = HASH

\* a variant that skips every line starting with '#', not only the leading
DropAllComments(lines) == SelectSeq(lines, LAMBDA l : ~StartsWithHash(l))

\* itertools.dropwhile(lambda x: x.startswith('#'), fp)
RECURSIVE DropComments(_)
DropComments(lines) ==
    IF lines # <<>> /\ StartsWithHash(Head(lines)) THEN DropComments(Tail(lines))
    ELSE lines

AxisRead(e, a, r) == [err |-> e, axis |-> a, rest |-> r]

\* the loop over range(npoints): n more values are read from lines
RECURSIVE ReadPoints(_, _, _)
ReadPoints(lines, n, acc) ==
    IF n = 0 THEN AxisRead("", acc, lines)
    ELSE IF lines = <<>> THEN AxisRead("StopIteration", <<>>, <<>>)
    ELSE LET v == process_grid_line(Head(lines))
         IN  IF v.err # "" THEN AxisRead(v.err, <<>>, <<>>)
             ELSE ReadPoints(Tail(lines), n - 1, Append(acc, v.val))

\* one pass of the loop over dim: the count line, then the data lines
ReadAxis(lines) ==
    IF lines = <<>> THEN AxisRead("StopIteration", <<>>, <<>>)
    ELSE IF ~IntOk(Head(lines)) THEN AxisRead("ValueError", <<>>, <<>>)
    ELSE IF IntOf(Head(lines)) < 0 THEN AxisRead("ValueError", <<>>, <<>>)
    ELSE ReadPoints(Tail(lines), IntOf(Head(lines)), <<>>)

GridRead(e, g) == [err |-> e, grid |-> g]

read_grid(file) ==
    LET a1 == ReadAxis(DropComments(file))
        a2 == ReadAxis(a1.rest)
        a3 == ReadAxis(a2.rest)
    IN  IF a1.err # "" THEN GridRead(a1.err, EmptyGrid)
        ELSE IF a2.err # "" THEN GridRead(a2.err, EmptyGrid)
        ELSE IF a3.err # "" THEN GridRead(a3.err, EmptyGrid)
        ELSE GridRead("", [x1 |-> a1.axis, x2 |-> a2.axis, x3 |-> a3.axis])

(***************************************************************************)
(* write_grid_header                                                       *)
(***************************************************************************)
Geometries == {"CARTESIAN", "polar"}

\* str.upper()
Upper(text) ==
    CASE text = "polar" -> "POLAR"
      [] text = "x1" -> "X1"
      [] text = "x2" -> "X2"
      [] text = "x3" -> "X3"
      [] OTHER -> text

Words(ws) == [i \in 1..(2 * Len(ws)) |-> IF i % 2 = 1 THEN SP ELSE WordTok(ws[i \div 2])]

Stars == <<HASH>> \o Words(<<"******************************************************">>)

\* sum(arr.size > 1 for arr in grid.values())
Ndim(grid) == Cardinality({i \in 1..3 : Len(grid[keys[i]]) > 1})

\* '# {0} [{1:.5f},  {2:.5f}], {3} point(s), 3 ghosts'
DimLine(dim, arr) ==
    <<HASH, SP, WordTok(Upper(dim)), SP, WordTok("["),
      NumTok(FormatF5(arr[1])), WordTok(","), SP, SP,
      NumTok(FormatF5(arr[Len(arr)])), WordTok("],"), SP,
      IntTok(Len(arr)), SP, WordTok("point(s),"), SP, IntTok(3), SP,
      WordTok("ghosts")>>

write_grid_header(file, grid, geometry) ==
    LET ndim == Ndim(grid)
    IN  OpenW(file)
        \o <<Stars,
             <<HASH>> \o Words(<<"PLUTO", "4.2", "Grid", "File">>),
             <<HASH>> \o Words(<<"Generated", "on">>) \o <<SP>>
                 \o Words(<<"Mon", "Jul", "10", "10:10:10", "2017">>),
             <<HASH>>,
             <<HASH, SP, WordTok("DIMENSIONS:"), SP, IntTok(ndim)>>,
             <<HASH, SP, WordTok("GEOMETRY:"), SP, SP, SP,
               WordTok(Upper(geometry))>> >>
        \o [i \in 1..ndim |-> DimLine(keys[i], grid[keys[i]])]
        \o <<Stars>>

(***************************************************************************)
(* write_grid                                                              *)
(***************************************************************************)
\* a variant taking the whole spacing, not half of it
LeftFullStep(arr) ==
    IF Len(arr) > 1 THEN
        LET dx == Sub(arr[2], arr[1])
        IN  [i \in 1..Len(arr) |-> RoundDec(Sub(arr[i], dx), 12)]
    ELSE <<FromInt(0)>>

\* np.around(grid[dim] - dx / 2, 12) + 0, or [0] for a single point
Left(arr) ==
    IF Len(arr) > 1 THEN
        LET dx == Sub(arr[2], arr[1])
        IN  [i \in 1..Len(arr) |-> RoundDec(Sub(arr[i], Half(dx)), 12)]
    ELSE <<FromInt(0)>>

\* np.around(grid[dim] + dx / 2, 12) + 0, or [1] for a single point
Right(arr) ==
    IF Len(arr) > 1 THEN
        LET dx == Sub(arr[2], arr[1])
        IN  [i \in 1..Len(arr) |-> RoundDec(Add(arr[i], Half(dx)), 12)]
    ELSE <<FromInt(1)>>

\* the lines written for one dim: the count, then one line per point
AxisBlock(arr, pluto4) ==
    LET L == Left(arr)
        R == Right(arr)
    IN  <<<<IntTok(Len(arr))>>>>
        \o [i \in 1..Len(arr) |->
              IF pluto4 THEN
                  <<SP, IntTok(i), TAB, NumTok(FormatE12(L[i])), TAB,
                    NumTok(FormatE12(R[i]))>>
              ELSE
                  <<SP, IntTok(i), TAB, NumTok(FormatE12(L[i])), TAB,
                    NumTok(FormatE12(Half(Add(R[i], L[i])))), TAB,
                    NumTok(FormatE12(R[i])), TAB,
                    NumTok(FormatE12(Sub(R[i], L[i])))>>]

write_grid(file, grid, pluto4, geometry) ==
    LET truncated == IF pluto4 THEN write_grid_header(file, grid, geometry)
                     ELSE OpenW(file)
    IN  OpenA(truncated)
        \o AxisBlock(grid.x1, pluto4)
        \o AxisBlock(grid.x2, pluto4)
        \o AxisBlock(grid.x3, pluto4)

(***************************************************************************)
(* Grids written and read back.  An axis is the first n points of a        *)
(* profile (first center, spacing).                                        *)
(***************************************************************************)
MaxPoints == 2

MaxPriorLines == 2

MaxWrites == 2

Profile(first, step) == [first |-> first, step |-> step]

RECURSIVE Times(_, _)
Times(n, a) == IF n = 0 THEN Zero ELSE Add(a, Times(n - 1, a))

Axis(p, n) == [i \in 1..n |-> Add(p.first, Times(i - 1, p.step))]

\* 0.5, 1.5, ...: the cells [0,1], [1,2], ...
UnitCells == Profile(Dec(0, 5000000, 0), FromInt(1))

\* -0.75, -0.25, 0.25, ...: cells across zero
AcrossZero == Profile(Neg(Dec(0, 7500000, 0)), Dec(0, 5000000, 0))

\* 0.0000000000006, 0.0000000000016, ...: centers with 13 decimals
Fine == Profile(Dec(0, 0, 60), Dec(0, 0, 100))

\* 12.000000000007, 13.000000000007, ...: 14 significant digits
Wide == Profile(Dec(12, 0, 700), FromInt(1))

AxesOf(profiles) == {Axis(p, n) : p \in profiles, n \in 1..MaxPoints}

Grids ==
    {[x1 |-> a, x2 |-> b, x3 |-> c] :
        a \in AxesOf({UnitCells, AcrossZero, Fine, Wide}),
        b \in {Axis(AcrossZero, n) : n \in {1, MaxPoints}},
        c \in {Axis(UnitCells, n) : n \in {1, MaxPoints}}}

PriorFiles == {[i \in 1..n |-> <<IntTok(i), SP, WordTok("old")>>] : n \in 0..MaxPriorLines}

WriteCall(g, p4, geom) == [called |-> TRUE, grid |-> g, pluto4 |-> p4, geometry |-> geom]

InitGrid ==
    /\ gfile \in PriorFiles
    /\ wcall = NoWrite
    /\ nwrites = 0
    /\ rres = NoRead
    /\ LineIdle /\ LogIdle /\ ConfigIdle

WriteGrid ==
    \E g \in Grids, p4 \in BOOLEAN, geom \in Geometries :
        /\ nwrites < MaxWrites
        /\ nwrites' = nwrites + 1
        /\ gfile' = write_grid(gfile, g, p4, geom)
        /\ wcall' = WriteCall(g, p4, geom)
        /\ rres' = NoRead
        /\ UNCHANGED <<lineVars, logVars, configVars>>

ReadGrid ==
    /\ rres = NoRead
    /\ rres' = read_grid(gfile)
    /\ UNCHANGED <<gfile, wcall, nwrites, lineVars, logVars, configVars>>

NextGrid == WriteGrid \/ ReadGrid

SpecGrid == InitGrid /\ [][NextGrid]_vars

(***************************************************************************)
(* Input grid files: every sequence of at most MaxFileLines lines drawn    *)
(* from GridLines.                                                         *)
(***************************************************************************)
MaxFileLines == 4

GridLines ==
    { <<HASH, SP, WordTok("c")>>,
      <<IntTok(0)>>,
      <<IntTok(1), SP>>,
      <<IntTok(2)>>,
      \* index, left edge, right edge
      <<SP, IntTok(1), TAB, NumTok(FromInt(0)), TAB, NumTok(FromInt(1))>>,
      \* five fields, text in fields the conversion does not read
      <<IntTok(1), SP, WordTok("x"), SP, NumTok(Dec(0, 2500000, 0)), SP,
        WordTok("y"), SP, WordTok("z")>>,
      \* three fields, the index is text
      <<WordTok("i"), SP, NumTok(FromInt(1)), SP, NumTok(FromInt(2))>>,
      \* three fields, the right edge is text
      <<IntTok(1), SP, NumTok(FromInt(0)), SP, WordTok("x")>>,
      \* five fields, the value is text
      <<IntTok(1), SP, NumTok(FromInt(0)), SP, WordTok("x"), SP,
        NumTok(FromInt(1)), SP, NumTok(FromInt(1))>>,
      \* two fields
      <<IntTok(1), SP, NumTok(FromInt(0))>> }

InputFiles == SeqsUpTo(GridLines, MaxFileLines)

InitGridRead ==
    /\ gfile \in InputFiles
    /\ wcall = NoWrite
    /\ nwrites = 0
    /\ rres = NoRead
    /\ LineIdle /\ LogIdle /\ ConfigIdle

NextGridRead == ReadGrid

SpecGridRead == InitGridRead /\ [][NextGridRead]_vars

(***************************************************************************)
(* Claims about the grid codec.                                            *)
(***************************************************************************)
PointFive == Dec(0, 5000000, 0)

\* |a - b| is at most one unit of the 12th decimal
Close12(a, b) == Leq(Abs(Sub(a, b)), Dec(0, 0, 100))

\* every cell edge of the axis (center -+ half the first spacing) is below 10
\* in magnitude, so that 13 significant digits hold 12 decimals
EdgesBelowTen(arr) ==
    LET h == Half(Sub(arr[2], arr[1]))
    IN  \A i \in 1..Len(arr) :
            /\ Less(Abs(Sub(arr[i], h)), FromInt(10))
            /\ Less(Abs(Add(arr[i], h)), FromInt(10))

ReadBack == wcall.called /\ rres # NoRead

\* C2 as stated: write_grid then read_grid returns, for every axis with more
\* than one point, the original centers to within 12 decimals, and <<0.5>> for
\* every axis with one point.
C2_RoundTripAnyMagnitude ==
    ReadBack =>
        /\ rres.err = ""
        /\ \A d \in 1..3 :
            LET o == wcall.grid[keys[d]]
                r == rres.grid[keys[d]]
            IN  IF Len(o) > 1
                THEN Len(r) = Len(o) /\ \A i \in 1..Len(o) : Close12(r[i], o[i])
                ELSE r = <<PointFive>>

\* C2 amended: the same, for the axes with more than one point whose cell
\* edges are all below 10 in magnitude; an axis with more than one point
\* always reads back with its length, an axis with one point as <<0.5>>.
C2_RoundTrip ==
    ReadBack =>
        /\ rres.err = ""
        /\ \A d \in 1..3 :
            LET o == wcall.grid[keys[d]]
                r == rres.grid[keys[d]]
            IN  IF Len(o) > 1
                THEN /\ Len(r) = Len(o)
                     /\ EdgesBelowTen(o) => \A i \in 1..Len(o) : Close12(r[i], o[i])
                ELSE r = <<PointFive>>

\* C2 witness: a legacy file read back, x1 with more than one point and
\* centers that the 12-decimal rounding moves, x2 a single point that is not 0.5
C2_Witness ==
    /\ ReadBack /\ rres.err = "" /\ ~wcall.pluto4
    /\ wcall.grid.x1 = Axis(Fine, MaxPoints)
    /\ rres.grid.x1 # wcall.grid.x1
    /\ Len(wcall.grid.x2) = 1 /\ wcall.grid.x2 # <<PointFive>>
    /\ rres.grid.x2 = <<PointFive>>

\* the lines of the file that are the header line of dim
DimLinesOf(file, dim) ==
    {i \in 1..Len(file) :
        /\ StartsWithHash(file[i])
        /\ Len(file[i]) >= 3
        /\ file[i][3] = WordTok(Upper(dim))}

\* C4 as stated: the current format writes DIMENSIONS = the number of axes with
\* more than one point, and one 'Xk [min, max], n point(s), 3 ghosts' line for
\* each axis with more than one point (its own name, first and last center and
\* count) and none for an axis with one point.
C4_HeaderPerActiveAxis ==
    (wcall.called /\ wcall.pluto4) =>
        /\ \E i \in 1..Len(gfile) :
             gfile[i] = <<HASH, SP, WordTok("DIMENSIONS:"), SP,
                          IntTok(Cardinality({d \in 1..3 : Len(wcall.grid[keys[d]]) > 1}))>>
        /\ \A d \in 1..3 :
            LET arr == wcall.grid[keys[d]]
                at  == DimLinesOf(gfile, keys[d])
            IN  IF Len(arr) > 1
                THEN /\ Cardinality(at) = 1
                     /\ \A i \in at : gfile[i] = DimLine(keys[d], arr)
                ELSE at = {}

\* C10: after any sequence of write_grid calls the file is what the last call
\* alone writes to a file that did not exist.
C10_LastWriteOnly ==
    wcall.called =>
        gfile = write_grid(<<>>, wcall.grid, wcall.pluto4, wcall.geometry)

\* C10 witness: a second call, in the legacy format, on a file that the first
\* call wrote
C10_Witness ==
    /\ nwrites = MaxWrites /\ wcall.called /\ ~wcall.pluto4
    /\ Len(gfile) = 3 + Len(wcall.grid.x1) + Len(wcall.grid.x2) + Len(wcall.grid.x3)

\* the midpoint of two fields
Midpoint(f2, f3) == Half(Add(Float(f2), Float(f3)))

Called == pres # NotCalled

\* C3 as stated: a line of exactly 5 fields reads as field 3; a line of any
\* other field count reads as (field2 + field3) / 2.
C3_MidpointForAnyOtherCount ==
    LET f == Split(pline)
    IN  (Called /\ \A i \in 1..Len(f) : FloatOk(f[i])) =>
            IF Len(f) = 5 THEN pres = Outcome("", Float(f[3]))
            ELSE /\ pres.err = ""
                 /\ Len(f) >= 3 => pres.val = Midpoint(f[2], f[3])

\* C3 amended: a line of exactly 5 fields reads as field 3; a line of 3 fields,
\* or of any other count of at least 3, reads as (field2 + field3) / 2; a line
\* of fewer than 3 fields has no value (the conversion raises).
C3_Conversion ==
    LET f == Split(pline)
    IN  Called =>
            /\ (Len(f) = 5 /\ FloatOk(f[3])) => pres = Outcome("", Float(f[3]))
            /\ (Len(f) >= 3 /\ Len(f) # 5 /\ FloatOk(f[2]) /\ FloatOk(f[3])) =>
                   pres = Outcome("", Midpoint(f[2], f[3]))
            /\ Len(f) < 3 => pres.err # ""

\* C3 witness: a line of 4 fields read as the midpoint of two different fields
C3_Witness ==
    LET f == Split(pline)
    IN  /\ Called /\ Len(f) = 4 /\ pres.err = ""
        /\ Float(f[2]) # Float(f[3]) /\ Float(f[1]) # Float(f[2])

\* the number of leading lines that begin with '#'
LeadingComments(file) ==
    CHOOSE k \in 0..Len(file) :
        /\ \A i \in 1..k : StartsWithHash(file[i])
        /\ k = Len(file) \/ ~StartsWithHash(file[k + 1])

Body(file) == SubSeq(file, LeadingComments(file) + 1, Len(file))

\* a line holding the point count n
CountLine(line, n) == IntOk(line) /\ IntOf(line) = n

\* the declared counts <<n1, n2, n3>> of a body that holds three complete blocks
Layouts(body) ==
    {c \in (0..Len(body)) \X (0..Len(body)) \X (0..Len(body)) :
        /\ 3 + c[1] + c[2] + c[3] <= Len(body)
        /\ CountLine(body[1], c[1])
        /\ CountLine(body[2 + c[1]], c[2])
        /\ CountLine(body[3 + c[1] + c[2]], c[3])}

\* where block d (1, 2, 3) starts
BlockAt(c, d) == IF d = 1 THEN 1 ELSE IF d = 2 THEN 2 + c[1] ELSE 3 + c[1] + c[2]

\* the positions of the data lines of the three blocks
DataPos(c) == UNION {{BlockAt(c, d) + i : i \in 1..c[d]} : d \in 1..3}

\* the fields process_grid_line reads are there and are numbers
UsedFieldsParse(line) ==
    LET f == Split(line)
    IN  IF Len(f) = 5 THEN FloatOk(f[3])
        ELSE Len(f) >= 3 /\ FloatOk(f[2]) /\ FloatOk(f[3])

EveryFieldParses(line) == \A i \in 1..Len(Split(line)) : FloatOk(Split(line)[i])

ValueOf(line) ==
    LET f == Split(line)
    IN  IF Len(f) = 5 THEN Float(f[3]) ELSE Midpoint(f[2], f[3])

ReadInput == rres # NoRead /\ ~wcall.called

\* what read_grid returns on a body with the declared counts c
ReturnsBlocks(body, c) ==
    /\ rres.err = ""
    /\ DOMAIN rres.grid = {"x1", "x2", "x3"}
    /\ \A d \in 1..3 :
        /\ Len(rres.grid[keys[d]]) = c[d]
        /\ \A i \in 1..c[d] :
              rres.grid[keys[d]][i] = ValueOf(body[BlockAt(c, d) + i])

\* C8 as stated: read_grid skips the leading '#' lines, reads three blocks
\* (a count n, then n data lines) and returns the three axes with the declared
\* lengths, ignoring what follows; it fails, returning no grid, if the input
\* ends before a block is complete or if a field of a data line is no number.
C8_FailsOnAnyField ==
    ReadInput =>
        /\ rres.err # "" => rres.grid = EmptyGrid
        /\ Layouts(Body(gfile)) = {} => rres.err # ""
        /\ \A c \in Layouts(Body(gfile)) :
              IF \A j \in DataPos(c) : EveryFieldParses(Body(gfile)[j])
              THEN ReturnsBlocks(Body(gfile), c)
              ELSE rres.err # ""

\* C8 amended: the same, where the fields that must be numbers are the ones
\* the conversion reads (field 3 of a 5-field line, fields 2 and 3 of any
\* other line); other fields are not parsed.
C8_ReadProtocol ==
    ReadInput =>
        /\ rres.err # "" => rres.grid = EmptyGrid
        /\ Layouts(Body(gfile)) = {} => rres.err # ""
        /\ \A c \in Layouts(Body(gfile)) :
              IF \A j \in DataPos(c) : UsedFieldsParse(Body(gfile)[j])
              THEN ReturnsBlocks(Body(gfile), c)
              ELSE rres.err # ""

\* C8 witness: a grid returned from a file with a 5-field data line that has
\* text in the fields the conversion does not read
C8_Witness ==
    /\ ReadInput /\ rres.err = ""
    /\ \E d \in 1..3 : rres.grid[keys[d]] = <<Dec(0, 2500000, 0)>>

(***************************************************************************)
(* Ordered mappings (dict, OrderedDict): a sequence of entries in insertion*)
(* order; assigning to a key that is there keeps its place.                *)
(***************************************************************************)
Entry(k, v) == [key |-> k, val |-> v]

Has(d, k) == \E i \in 1..Len(d) : d[i].key = k

Get(d, k) == d[CHOOSE i \in 1..Len(d) : d[i].key = k].val

\* d[k] = v
SetItem(d, k, v) ==
    IF Has(d, k) THEN [i \in 1..Len(d) |-> IF d[i].key = k THEN Entry(k, v) ELSE d[i]]
    ELSE Append(d, Entry(k, v))

(***************************************************************************)
(* read_output_log                                                         *)
(***************************************************************************)
\* time * time2yrs, kept as the product it is
InYears(t) == [x |-> t, unit |-> "time2yrs"]

LogRead(e, d) == [err |-> e, data |-> d]

\* the body of the loop over the lines
RECURSIVE ReadLogLines(_, _)
ReadLogLines(lines, d) ==
    IF lines = <<>> THEN LogRead("", d)
    ELSE LET items == Split(Head(lines))
         IN  IF Len(items) < 1 THEN LogRead("IndexError", <<>>)
             ELSE IF items[1].k # "int" THEN LogRead("ValueError", <<>>)
             ELSE IF Len(items) < 2 THEN LogRead("IndexError", <<>>)
             ELSE IF ~FloatOk(items[2]) THEN LogRead("ValueError", <<>>)
             ELSE IF Len(items) < 5 THEN LogRead("IndexError", <<>>)
             ELSE ReadLogLines(Tail(lines),
                     SetItem(d, items[1].hi,
                         [time    |-> InYears(Float(items[2])),
                          time_   |-> Float(items[2]),
                          output_ |-> items[5],
                          vars    |-> SubSeq(items, 7, Len(items))]))

\* a variant that skips blank lines
read_output_log_skip_blank(file) == ReadLogLines(SelectSeq(file, LAMBDA l : Split(l) # <<>>), <<>>)

read_output_log(file) == ReadLogLines(file, <<>>)

(***************************************************************************)
(* Input logs: lines are the first k fields of a record                    *)
(* 'index time dt step format_label 0 var1 var2 ...', or such a record     *)
(* with text for the index or for the time.                                *)
(***************************************************************************)
MaxLogFields == 8

MaxLogLines == 2

VarNames == <<"rho", "vx1", "vx2", "vx3", "prs", "bx1">>

\* field i of the record of output n
LogField(n, i) ==
    CASE i = 1 -> IntTok(n)
      [] i = 2 -> NumTok(Dec(12 + n, 5000000, 0))
      [] i = 3 -> NumTok(Zero)
      [] i = 4 -> IntTok(100)
      [] i = 5 -> WordTok("dbl")
      [] i = 6 -> IntTok(0)
      [] OTHER -> WordTok(VarNames[i - 6])

LogLines ==
    {Join([i \in 1..k |-> LogField(n, i)], SP) : n \in {3, 4}, k \in 0..MaxLogFields}
    \cup {Join([i \in 1..MaxLogFields |->
                  IF i = j THEN WordTok("x") ELSE LogField(3, i)], SP) : j \in 1..2}

InitLog ==
    /\ lfile \in SeqsUpTo(LogLines, MaxLogLines)
    /\ lres = NoLog
    /\ LineIdle /\ GridIdle /\ ConfigIdle

ReadOutputLog ==
    /\ lres = NoLog
    /\ lres' = read_output_log(lfile)
    /\ UNCHANGED <<lfile, lineVars, gridVars, configVars>>

NextLog == ReadOutputLog

SpecLog == InitLog /\ [][NextLog]_vars

\* the number of whitespace-separated fields of a line
NFields(line) == Len(Split(line))

\* C6 as stated: read_output_log fails whenever a line has fewer than 7
\* fields, lines of 5 or 6 fields and blank lines included.
C6_FailsBelowSeven ==
    (lres # NoLog /\ \E i \in 1..Len(lfile) : NFields(lfile[i]) < 7) =>
        lres.err # ""

\* C6 amended: read_output_log fails, returning no catalog, whenever a line
\* has fewer than 5 fields, blank lines included; a line of 5 or 6 fields is
\* accepted and its variable list is empty.
C6_FailsBelowFive ==
    lres # NoLog =>
        /\ (\E i \in 1..Len(lfile) : NFields(lfile[i]) < 5) =>
               lres.err # "" /\ lres.data = <<>>
        /\ lres.err = "" =>
               \A i \in 1..Len(lfile) :
                   /\ Has(lres.data, Split(lfile[i])[1].hi)
                   /\ (NFields(lfile[i]) \in {5, 6} /\
                       \A j \in (i + 1)..Len(lfile) : Split(lfile[j])[1] # Split(lfile[i])[1])
                      => Get(lres.data, Split(lfile[i])[1].hi).vars = <<>>

\* C6 witness: a complete record followed by a blank line; the call raises
C6_Witness ==
    /\ lres.err = "IndexError"
    /\ Len(lfile) = 2
    /\ NFields(lfile[1]) = MaxLogFields
    /\ NFields(lfile[2]) = 0

(***************************************************************************)
(* Strings of the config codec: sequences of characters.                   *)
(***************************************************************************)
Whitespace == {" ", "\t"}

RECURSIVE LStripSet(_, _)
LStripSet(str, chars) ==
    IF str # <<>> /\ Head(str) \in chars THEN LStripSet(Tail(str), chars) ELSE str

RECURSIVE RStripSet(_, _)
RStripSet(str, chars) ==
    IF str # <<>> /\ str[Len(str)] \in chars
    THEN RStripSet(SubSeq(str, 1, Len(str) - 1), chars)
    ELSE str

\* str.strip()
Strip(str) == RStripSet(LStripSet(str, Whitespace), Whitespace)

\* str.startswith(c), str.endswith(c) for a character c
StartsWith(str, c) == str # <<>> /\ Head(str) = c

EndsWith(str, c) == str # <<>> /\ str[Len(str)] = c

\* str.split(' ', 1)
SplitSpaceOnce(str) ==
    IF \E i \in 1..Len(str) : str[i] = " " THEN
        LET i == CHOOSE i \in 1..Len(str) :
                     str[i] = " " /\ \A j \in 1..(i - 1) : str[j] # " "
        IN  <<SubSeq(str, 1, i - 1), SubSeq(str, i + 1, Len(str))>>
    ELSE <<str>>

Rep(c, n) == [i \in 1..n |-> c]

\* the minimum column width of a key in write_config
PadWidth == 25

\* '{:<25}'.format(key)
PadKey(key) == IF Len(key) < PadWidth THEN key \o Rep(" ", PadWidth - Len(key)) ELSE key

(***************************************************************************)
(* read_config                                                             *)
(***************************************************************************)
Bound(name) == [bound |-> TRUE, name |-> name]

Stepped(e, sec, d) == [err |-> e, section |-> sec, data |-> d]

\* a variant in which a section declared again keeps its keys
ConfigStepKeep(sec, d, raw) ==
    LET line == Strip(raw)
    IN  IF StartsWith(line, "[") /\ EndsWith(line, "]") THEN
            LET name == RStripSet(LStripSet(line, {"["}), {"]"})
            IN  Stepped("", Bound(name), IF Has(d, name) THEN d ELSE SetItem(d, name, <<>>))
        ELSE IF line = <<>> THEN Stepped("", sec, d)
        ELSE LET parts == SplitSpaceOnce(line)
             IN  IF Len(parts) # 2 THEN Stepped("ValueError", sec, d)
                 ELSE IF ~sec.bound THEN Stepped("UnboundLocalError", sec, d)
                 ELSE Stepped("", sec,
                         SetItem(d, sec.name,
                             SetItem(Get(d, sec.name), parts[1], Strip(parts[2]))))

\* a variant that skips a key-value line met before any header
ConfigStepLenient(sec, d, raw) ==
    LET line == Strip(raw)
    IN  IF StartsWith(line, "[") /\ EndsWith(line, "]") THEN
            LET name == RStripSet(LStripSet(line, {"["}), {"]"})
            IN  Stepped("", Bound(name), SetItem(d, name, <<>>))
        ELSE IF line = <<>> THEN Stepped("", sec, d)
        ELSE LET parts == SplitSpaceOnce(line)
             IN  IF ~sec.bound THEN Stepped("", sec, d)
                 ELSE IF Len(parts) # 2 THEN Stepped("ValueError", sec, d)
                 ELSE Stepped("", sec,
                         SetItem(d, sec.name,
                             SetItem(Get(d, sec.name), parts[1], Strip(parts[2]))))

\* the body of the loop over the lines: one line read with the locals
\* section and data
ConfigStep(sec, d, raw) ==
    LET line == Strip(raw)
    IN  IF StartsWith(line, "[") /\ EndsWith(line, "]") THEN
            LET name == RStripSet(LStripSet(line, {"["}), {"]"})
            IN  Stepped("", Bound(name), SetItem(d, name, <<>>))
        ELSE IF line = <<>> THEN Stepped("", sec, d)
        ELSE LET parts == SplitSpaceOnce(line)
             IN  IF Len(parts) # 2 THEN Stepped("ValueError", sec, d)
                 ELSE IF ~sec.bound THEN Stepped("UnboundLocalError", sec, d)
                 ELSE Stepped("", sec,
                         SetItem(d, sec.name,
                             SetItem(Get(d, sec.name), parts[1], Strip(parts[2]))))

\* section has no value before the first header
InitialSection == Unbound

(***************************************************************************)
(* write_config                                                            *)
(***************************************************************************)
RECURSIVE Flatten(_)
Flatten(seqs) == IF seqs = <<>> THEN <<>> ELSE Head(seqs) \o Flatten(Tail(seqs))

\* the lines written for one section
SectionLines(name, items) ==
    <<<<"[">> \o name \o <<"]">>, <<>>>>
    \o [i \in 1..Len(items) |-> PadKey(items[i].key) \o items[i].val]
    \o <<<<>>>>

write_config(file, d) ==
    OpenW(file) \o Flatten([i \in 1..Len(d) |-> SectionLines(d[i].key, d[i].val)])

(***************************************************************************)
(* Input config files: every sequence of at most MaxConfigLines lines      *)
(* drawn from ConfigLines.                                                 *)
(***************************************************************************)
MaxConfigLines == 3

ConfigLines ==
    { <<"[", "s", "]">>,
      <<" ", "[", "t", "]", "\t">>,
      <<"[", "[", "s", "]", "]">>,
      <<>>,
      <<" ", "\t">>,
      <<"k", " ", "v">>,
      <<"k", " ", " ", "v", " ", "w", " ">>,
      <<"k", "\t", "v">>,
      <<"a", "\t", "b", " ", "c">>,
      Rep("j", PadWidth - 1) \o <<" ", "x">>,
      Rep("k", PadWidth) \o <<" ", "v", " ", "w">> }

InitConfig ==
    /\ cfile \in SeqsUpTo(ConfigLines, MaxConfigLines)
    /\ cpos = 0 /\ section = Unbound /\ data = <<>>
    /\ cstatus = "idle" /\ cphase = 1 /\ doc1 = <<>>
    /\ LineIdle /\ GridIdle /\ LogIdle

\* read_config is called: data = collections.OrderedDict(), the file is opened
ReadConfigStart ==
    /\ cstatus \in {"idle", "written"}
    /\ cstatus' = "reading"
    /\ cpos' = 0
    /\ section' = InitialSection
    /\ data' = <<>>
    /\ UNCHANGED <<cfile, cphase, doc1, lineVars, gridVars, logVars>>

\* one pass of the loop; an exception ends the call and data is dropped
ReadConfigLine ==
    /\ cstatus = "reading"
    /\ cpos < Len(cfile)
    /\ LET r == ConfigStep(section, data, cfile[cpos + 1])
       IN  /\ cpos' = cpos + 1
           /\ section' = r.section
           /\ IF r.err = "" THEN data' = r.data /\ cstatus' = "reading"
              ELSE data' = <<>> /\ cstatus' = "raised"
    /\ UNCHANGED <<cfile, cphase, doc1, lineVars, gridVars, logVars>>

\* the loop ends at the end of the file: return data
ReadConfigReturn ==
    /\ cstatus = "reading"
    /\ cpos = Len(cfile)
    /\ cstatus' = "returned"
    /\ doc1' = IF cphase = 1 THEN data ELSE doc1
    /\ UNCHANGED <<cfile, cpos, section, data, cphase, lineVars, gridVars, logVars>>

\* the caller writes the document it read back to the file
WriteConfig ==
    /\ cphase = 1
    /\ cstatus = "returned"
    /\ cfile' = write_config(cfile, data)
    /\ cphase' = 2
    /\ cstatus' = "written"
    /\ UNCHANGED <<cpos, section, data, doc1, lineVars, gridVars, logVars>>

NextConfig == ReadConfigStart \/ ReadConfigLine \/ ReadConfigReturn \/ WriteConfig

SpecConfig == InitConfig /\ [][NextConfig]_vars

(***************************************************************************)
(* Claims about the config codec.                                          *)
(***************************************************************************)
InRead == cstatus \in {"reading", "returned", "raised"}

Blank(raw) == Strip(raw) = <<>>

IsHeader(raw) == StartsWith(Strip(raw), "[") /\ EndsWith(Strip(raw), "]")

\* C1 as stated: read_config, write_config of the result, read_config again
\* yields the same sections, keys and values in the same order, for every
\* document whose sections all have a key and whose lines are all well formed.
C1_RoundTrip ==
    (cphase = 2 /\ cstatus \in {"returned", "raised"}
        /\ \A i \in 1..Len(doc1) : doc1[i].val # <<>>) =>
        cstatus = "returned" /\ data = doc1

\* the first line of the file that is not blank
FirstNonBlank(file) ==
    CHOOSE i \in 1..Len(file) : ~Blank(file[i]) /\ \A j \in 1..(i - 1) : Blank(file[j])

\* C5: a non-blank line that is no header, read before any header, makes
\* read_config raise; a call that raised returns no document, and a document
\* is returned only when every line was read.
C5_NoSectionFails ==
    /\ (/\ InRead
        /\ \E i \in 1..Len(cfile) : ~Blank(cfile[i])
        /\ cpos >= FirstNonBlank(cfile)
        /\ ~IsHeader(cfile[FirstNonBlank(cfile)])) => cstatus = "raised"
    /\ cstatus = "raised" => data = <<>> /\ (cphase = 1 => doc1 = <<>>)
    /\ cstatus = "returned" => cpos = Len(cfile)

\* C5 witness: a blank line, then a key-value line with no section; the call
\* has raised
C5_Witness ==
    /\ cstatus = "raised" /\ cphase = 1 /\ cpos = 2
    /\ Blank(cfile[1])
    /\ cfile[2] = <<"k", " ", "v">>
    /\ ~section.bound

HasWhitespace(str) == \E i \in 1..Len(str) : str[i] \in Whitespace

\* the text before the first run of whitespace
KeyOf(str) ==
    SubSeq(str, 1, (CHOOSE i \in 1..Len(str) :
                       str[i] \in Whitespace /\ \A j \in 1..(i - 1) : str[j] \notin Whitespace) - 1)

\* the text after the first run of whitespace, right-trimmed
ValueOf7(str) ==
    RStripSet(LStripSet(SubSeq(str, Len(KeyOf(str)) + 1, Len(str)), Whitespace), Whitespace)

\* C7 as stated: with a section active, a line that is neither blank nor a
\* header is split at its first run of spaces or tabs into the key and the
\* right-trimmed rest, and the pair is stored in the active section's map.
C7_SplitAtWhitespaceRun ==
    (/\ InRead /\ cpos > 0 /\ section.bound
     /\ ~Blank(cfile[cpos]) /\ ~IsHeader(cfile[cpos])
     /\ HasWhitespace(Strip(cfile[cpos]))) =>
        /\ cstatus # "raised"
        /\ Has(data, section.name)
        /\ Has(Get(data, section.name), KeyOf(Strip(cfile[cpos])))
        /\ Get(Get(data, section.name), KeyOf(Strip(cfile[cpos])))
               = ValueOf7(Strip(cfile[cpos]))

\* '[name]' with one opening and one closing bracket around name
PlainHeader(line) ==
    /\ Len(line) >= 2 /\ line[1] = "[" /\ line[Len(line)] = "]"
    /\ ~StartsWith(SubSeq(line, 2, Len(line) - 1), "[")
    /\ ~EndsWith(SubSeq(line, 2, Len(line) - 1), "]")

Names(d) == {d[i].key : i \in 1..Len(d)}

====
